---- MODULE Spec2Model ----
(***************************************************************************)
(* Model of PDFManager (src/src/pdf_merger_app.py): the range parser       *)
(* parse_ranges, the background workers MergeWorker and SplitWorker, and   *)
(* the slots of PdfManagerWindow that start them.                          *)
(*                                                                         *)
(* Strings are sequences of one-character strings.  Three specifications:  *)
(*   SpecParse  parse_ranges applied to every bounded text / page count    *)
(*   Spec       one MergeWorker or SplitWorker run with arbitrary inputs   *)
(*   SpecUI     the window: list of items, buttons, toolbar, worker runs   *)
(*                                                                         *)
(* The events a worker emits are kept per run, in emission order.  The     *)
(* slots that only display them (progress bar, log, message boxes) hold no *)
(* state that another operation reads and are left out.  What pypdf and    *)
(* the operating system may do (a file that does not open, a decrypt that  *)
(* raises, a write that fails) is the environment: the kind of each file   *)
(* and a nondeterministic failure of makedirs, open and write.             *)
(***************************************************************************)
EXTENDS Integers, Sequences, FiniteSets, TLC

\* ------------------------------------------------------------------ bounds
MaxLen == 4         \* longest range text enumerated by SpecParse
MaxPages == 3       \* largest page count enumerated by SpecParse

\* ---------------------------------------------------------------- strings
Chars == {"0", "2", "9", "-", ",", " ", "x"}
Digits == {"0", "1", "2", "3", "4", "5", "6", "7", "8", "9"}

DigitVal(c) ==
    CASE c = "0" -> 0 [] c = "1" -> 1 [] c = "2" -> 2 [] c = "3" -> 3
      [] c = "4" -> 4 [] c = "5" -> 5 [] c = "6" -> 6 [] c = "7" -> 7
      [] c = "8" -> 8 [] c = "9" -> 9 [] OTHER -> 0

Max2(a, b) == IF a >= b THEN a ELSE b
Min2(a, b) == IF a <= b THEN a ELSE b

\* str.strip(): drop leading and trailing whitespace
RECURSIVE LStrip(_)
LStrip(s) == IF s # <<>> /\ Head(s) = " " THEN LStrip(Tail(s)) ELSE s

RECURSIVE RStrip(_)
RStrip(s) ==
    IF s # <<>> /\ s[Len(s)] = " " THEN RStrip(SubSeq(s, 1, Len(s) - 1)) ELSE s

Strip(s) == RStrip(LStrip(s))

\* index of the first occurrence of c in s, 0 when absent ("-" in part)
RECURSIVE FindFrom(_, _, _)
FindFrom(s, c, i) ==
    IF i > Len(s) THEN 0
    ELSE IF s[i] = c THEN i
    ELSE FindFrom(s, c, i + 1)

Find(s, c) == FindFrom(s, c, 1)

\* str.split(","): the pieces between separators, empty pieces included
RECURSIVE Split(_, _)
Split(s, c) ==
    LET k == Find(s, c) IN
    IF k = 0 THEN <<s>>
    ELSE <<SubSeq(s, 1, k - 1)>> \o Split(SubSeq(s, k + 1, Len(s)), c)

\* int(s): surrounding whitespace allowed, one optional sign, then digits
\* only; anything else raises ValueError (IntOk is FALSE)
Unsigned(s) == IF s # <<>> /\ Head(s) \in {"-", "+"} THEN Tail(s) ELSE s

IntOk(s) ==
    LET u == Unsigned(Strip(s)) IN
    /\ u # <<>>
    /\ \A i \in 1..Len(u) : u[i] \in Digits

RECURSIVE DecVal(_)
DecVal(u) ==
    IF u = <<>> THEN 0
    ELSE DecVal(SubSeq(u, 1, Len(u) - 1)) * 10 + DigitVal(u[Len(u)])

IntVal(s) ==
    LET t == Strip(s)
        u == Unsigned(t)
    IN IF t # <<>> /\ Head(t) = "-" THEN 0 - DecVal(u) ELSE DecVal(u)

\* max(1, min(total_pages, n)) as written at lines 85, 89 and 97
ClampPage(n, total_pages) == Max2(1, Min2(total_pages, n))

\* variant: the swap of lines 92-93 is missing
ParsePart_NoSwap(raw, total_pages) ==
    LET part == Strip(raw)
        k == Find(part, "-")
    IN
    IF part = <<>> THEN <<>>
    ELSE IF k # 0 THEN
        LET a == SubSeq(part, 1, k - 1)
            b == SubSeq(part, k + 1, Len(part))
        IN
        IF ~IntOk(a) THEN <<>>
        ELSE
            LET start == ClampPage(IntVal(a), total_pages)
                end == IF IntOk(b) THEN ClampPage(IntVal(b), total_pages)
                       ELSE start
            IN << <<start, end>> >>
    ELSE
        IF IntOk(part) THEN
            << <<ClampPage(IntVal(part), total_pages),
                 ClampPage(IntVal(part), total_pages)>> >>
        ELSE <<>>

\* the body of the for loop of parse_ranges for one part: the list of
\* intervals (zero or one) that the part appends to rngs
ParsePart(raw, total_pages) ==
    LET part == Strip(raw)
        k == Find(part, "-")
    IN
    IF part = <<>> THEN <<>>
    ELSE IF k # 0 THEN
        LET a == SubSeq(part, 1, k - 1)
            b == SubSeq(part, k + 1, Len(part))
        IN
        IF ~IntOk(a) THEN <<>>
        ELSE
            LET start == ClampPage(IntVal(a), total_pages)
                end == IF IntOk(b) THEN ClampPage(IntVal(b), total_pages)
                       ELSE start
            IN IF start > end THEN << <<end, start>> >>
               ELSE << <<start, end>> >>
    ELSE
        IF IntOk(part) THEN
            << <<ClampPage(IntVal(part), total_pages),
                 ClampPage(IntVal(part), total_pages)>> >>
        ELSE <<>>

RECURSIVE ParseParts(_, _)
ParseParts(parts, total_pages) ==
    IF parts = <<>> THEN <<>>
    ELSE ParsePart(Head(parts), total_pages)
         \o ParseParts(Tail(parts), total_pages)

parse_ranges(text, total_pages) ==
    LET t == Strip(text) IN
    IF t = <<>> THEN <<>>
    ELSE ParseParts(Split(t, ","), total_pages)

\* ------------------------------------------------------------------ state
VARIABLES
    p_text, p_total, p_pc, p_rngs,  \* one call of parse_ranges
    fs,         \* file system: path -> file, for the paths that exist
    dirs,       \* the directories that exist
    mruns,      \* the MergeWorker threads created so far
    sruns,      \* the SplitWorker threads created so far
    items,      \* PdfManagerWindow.items (the list of the merge tab)
    shared_plans, \* the merge workers whose plan is the list object self.items
    merge_form, \* the fields of the merge tab: folder, output file, bookmarks
    btn_merge,  \* btn_merge.isEnabled()
    btn_split,  \* btn_split.isEnabled()
    split_form, \* the fields of the split tab
    edit_pages,        \* _edit_pages: the page objects of the edit tab, in order
    page_rotate,       \* the /Rotate entry of each page object of the open reader
    current_row,       \* list_edit_pages.currentRow(), -1 when there is none
    preview_zoom_mode, \* _preview_zoom_mode
    preview_scale      \* _preview_scale, in units of 1/ScaleUnit

pvars == <<p_text, p_total, p_pc, p_rngs>>
evars == <<fs, dirs, mruns, sruns>>
uvars == <<items, shared_plans, merge_form, btn_merge, btn_split, split_form>>
avars == <<edit_pages, page_rotate, current_row, preview_zoom_mode, preview_scale>>
vars == <<p_text, p_total, p_pc, p_rngs, fs, dirs, mruns, sruns,
          items, shared_plans, merge_form, btn_merge, btn_split, split_form,
          edit_pages, page_rotate, current_row, preview_zoom_mode, preview_scale>>

\* ------------------------------------------------------------ file system
\* A path is <<directory, name pieces...>>; directory "" is the working
\* directory (os.path.dirname gives "" and the code turns it into ".").
\* A file is [kind, pages]: what the pypdf reader finds in it.
\*   plain      opens, not encrypted
\*   enc_empty  encrypted, decrypt("") succeeds
\*   enc_none   encrypted, decrypt("") returns "not decrypted"; the first
\*              access to reader.pages raises
\*   enc_raise  encrypted, decrypt("") raises (unsupported algorithm)
\*   corrupt    PdfReader(path) raises
\*   badpage    opens, but copying its last page raises
\*   partial    a file opened for writing whose document is not complete
\* outline is the list of bookmarks <<title, page index>> of the document.
File(kind, pages) == [kind |-> kind, pages |-> pages, outline |-> <<>>]

\* the document PdfWriter.write produces
Doc(pages, outline) == [kind |-> "plain", pages |-> pages, outline |-> outline]

DirOf(path) == IF path[1] = "" THEN "." ELSE path[1]

A_PDF == <<"", "a.pdf">>
B_PDF == <<"", "b.pdf">>
C_PDF == <<"", "c.pdf">>
D_PDF == <<"", "d.pdf">>
E_PDF == <<"", "e.pdf">>
F_PDF == <<"", "f.pdf">>
G_PDF == <<"", "g.pdf">>
Z_PDF == <<"", "z.pdf">>
MISSING_PDF == <<"", "missing.pdf">>
OUT_PDF == <<"", "out.pdf">>
NEW_OUT_PDF == <<"new", "out.pdf">>

InitFS ==
    (A_PDF :> File("plain", <<"a1", "a2", "a3">>))
    @@ (C_PDF :> File("corrupt", <<>>))
    @@ (D_PDF :> File("enc_raise", <<"d1">>))
    @@ (E_PDF :> File("enc_empty", <<"e1">>))
    @@ (F_PDF :> File("enc_none", <<"f1">>))
    @@ (G_PDF :> File("badpage", <<"g1", "g2">>))
    @@ (Z_PDF :> File("plain", <<>>))
    @@ (OUT_PDF :> File("plain", <<"old">>))

InitDirs == {"."}

Exists(path) == path \in DOMAIN fs

KindOf(path) == IF Exists(path) THEN fs[path].kind ELSE "absent"

\* PdfReader(path, strict=False) raises
OpenRaises(path) == KindOf(path) \in {"absent", "corrupt", "partial"}

\* reader.is_encrypted
IsEncrypted(path) == KindOf(path) \in {"enc_empty", "enc_none", "enc_raise"}

\* reader.decrypt("") raises
DecryptRaises(path) == KindOf(path) = "enc_raise"

\* the pages "for p in reader.pages: writer.add_page(p)" adds before it
\* ends or raises
PagesAdded(path) ==
    LET f == fs[path] IN
    CASE f.kind \in {"plain", "enc_empty"} -> f.pages
      [] f.kind = "badpage" -> SubSeq(f.pages, 1, Len(f.pages) - 1)
      [] OTHER -> <<>>

\* that loop raises
PagesRaise(path) == KindOf(path) \in {"enc_none", "badpage"}

\* fs with path set to file f (created when absent)
WriteFile(path, f) ==
    [q \in (DOMAIN fs) \cup {path} |-> IF q = path THEN f ELSE fs[q]]

\* ----------------------------------------------------------------- events
Message(tag, path) == <<"message", tag, path>>
Progress(pct) == <<"progress", pct>>
FinishedOk(where) == <<"finished_ok", where>>
FinishedError(why) == <<"finished_error", why>>

\* int(done / total * 100): the float product truncated.  For every total
\* below 20 and done <= 2 * total it equals the integer quotient.
Percent(done, total) == (done * 100) \div total

\* SplitWorker.MODE_EACH, MODE_CHUNK, MODE_RANGES (lines 195-197)
MODE_EACH == "each"
MODE_CHUNK == "chunk"
MODE_RANGES == "ranges"

\* ---------------------------------------------------- the window's fields
\* _build_merge_tab: empty line edits, chk_bookmark unchecked
MergeFormInit == [txt_folder |-> "", txt_out |-> <<>>, chk_bookmark |-> FALSE]

\* _build_split_tab: empty line edits, rb_each checked, spin_chunk 10,
\* spin_pad 3, spin_start 1
SplitFormInit ==
    [txt_src |-> <<>>, txt_outdir |-> "", txt_prefix |-> "",
     mode |-> MODE_EACH, spin_chunk |-> 10, txt_ranges |-> <<>>,
     spin_pad |-> 3, spin_start |-> 1]

\* ------------------------------------------------------------ MergeWorker
MaxPlan == 3        \* longest merge plan enumerated by Spec

\* MergeWorker.__init__
NewMergeWorker(plan, out_path, add_bookmarks) ==
    [items |-> plan, out_path |-> out_path, add_bookmarks |-> add_bookmarks,
     pc |-> "start", idx |-> 1, done |-> 0,
     writer |-> <<>>, outline |-> <<>>, events |-> <<>>]

\* variant: the return of line 145 is missing, the run goes on to the write
MergeStart_NoReturn(r) ==
    /\ r \in DOMAIN mruns
    /\ mruns[r].pc = "start"
    /\ IF mruns[r].items = <<>>
       THEN mruns' = [mruns EXCEPT
                ![r].events = Append(@, FinishedError("no items")),
                ![r].pc = "makedirs"]
       ELSE mruns' = [mruns EXCEPT ![r].pc = "loop"]
    /\ UNCHANGED <<fs, dirs, sruns, pvars, avars, uvars>>

\* lines 143-149: the empty plan is refused before anything else
MergeStart(r) ==
    /\ r \in DOMAIN mruns
    /\ mruns[r].pc = "start"
    /\ IF mruns[r].items = <<>>
       THEN mruns' = [mruns EXCEPT
                ![r].events = Append(@, FinishedError("no items")),
                ![r].pc = "returned"]
       ELSE mruns' = [mruns EXCEPT ![r].pc = "loop"]
    /\ UNCHANGED <<fs, dirs, sruns, pvars, avars, uvars>>

\* lines 151-178, one iteration of "for item in self.items" as the record
\* of the run after it; bm_fails says whether add_outline_item raises
MergeIteration(m, bm_fails) ==
    LET path == m.items[m.idx]
        total == Len(m.items)
        reading == Append(m.events, Message("reading", path))
        next_pc == IF m.idx = total THEN "makedirs" ELSE "loop"
        \* the finally clause: done += 1; progress.emit(...)
        Finally(run) ==
            [run EXCEPT !.done = @ + 1,
                        !.events = Append(@, Progress(Percent(run.done + 1, total))),
                        !.idx = @ + 1,
                        !.pc = next_pc]
    IN
    IF OpenRaises(path) THEN
        Finally([m EXCEPT !.events =
                    Append(reading, Message("skip_error", path))])
    ELSE IF IsEncrypted(path) /\ DecryptRaises(path) THEN
        \* lines 159-162: message, done += 1, progress, continue; the
        \* continue leaves the try statement, so the finally clause runs too
        Finally([m EXCEPT
            !.done = @ + 1,
            !.events = Append(Append(reading, Message("skip_encrypted", path)),
                              Progress(Percent(m.done + 1, total)))])
    ELSE
        LET added == [m EXCEPT !.writer = @ \o PagesAdded(path),
                               !.events = reading]
            start_page_index == Len(m.writer)
        IN
        IF PagesRaise(path) THEN
            Finally([added EXCEPT !.events =
                        Append(@, Message("skip_error", path))])
        ELSE IF m.add_bookmarks THEN
            IF bm_fails
            THEN Finally([added EXCEPT !.events =
                            Append(@, Message("bookmark_failed", path))])
            ELSE Finally([added EXCEPT !.outline =
                            Append(@, <<path[2], start_page_index>>)])
        ELSE Finally(added)

\* whether the iteration reaches add_outline_item
ReachesBookmark(m) ==
    LET path == m.items[m.idx] IN
    /\ m.add_bookmarks
    /\ ~OpenRaises(path)
    /\ ~(IsEncrypted(path) /\ DecryptRaises(path))
    /\ ~PagesRaise(path)

MergeItem(r) ==
    /\ r \in DOMAIN mruns
    /\ mruns[r].pc = "loop"
    /\ \E bm_fails \in (IF ReachesBookmark(mruns[r]) THEN BOOLEAN ELSE {FALSE}) :
           mruns' = [mruns EXCEPT ![r] = MergeIteration(mruns[r], bm_fails)]
    /\ UNCHANGED <<fs, dirs, sruns, pvars, avars, uvars>>

\* variant: no outer handler, the exception leaves run() without an event
MergeRaise_Escapes(r, why) ==
    mruns' = [mruns EXCEPT ![r].pc = "returned"]

\* an exception that reaches the outer handler (lines 185-186)
MergeRaise(r, why) ==
    mruns' = [mruns EXCEPT ![r].events = Append(@, FinishedError(why)),
                           ![r].pc = "returned"]

\* line 180: os.makedirs(dirname or ".", exist_ok=True), which may raise
MergeMakedirs(r) ==
    /\ r \in DOMAIN mruns
    /\ mruns[r].pc = "makedirs"
    /\ \/ /\ dirs' = dirs \cup {DirOf(mruns[r].out_path)}
          /\ mruns' = [mruns EXCEPT ![r].pc = "open"]
       \/ /\ DirOf(mruns[r].out_path) \notin dirs
          /\ MergeRaise(r, "makedirs")
          /\ UNCHANGED dirs
    /\ UNCHANGED <<fs, sruns, pvars, avars, uvars>>

\* line 181: open(out_path, "wb") creates or truncates the file, or raises
MergeOpen(r) ==
    /\ r \in DOMAIN mruns
    /\ mruns[r].pc = "open"
    /\ \/ /\ fs' = WriteFile(mruns[r].out_path, File("partial", <<>>))
          /\ mruns' = [mruns EXCEPT ![r].pc = "write"]
       \/ /\ MergeRaise(r, "open")
          /\ UNCHANGED fs
    /\ UNCHANGED <<dirs, sruns, pvars, avars, uvars>>

\* lines 182-184: writer.write(f), the file is closed, finished_ok; or the
\* write raises part-way and the file stays as far as it was written
MergeWrite(r) ==
    /\ r \in DOMAIN mruns
    /\ mruns[r].pc = "write"
    /\ \/ /\ fs' = WriteFile(mruns[r].out_path,
                             Doc(mruns[r].writer, mruns[r].outline))
          /\ mruns' = [mruns EXCEPT
                ![r].events = Append(@, FinishedOk(mruns[r].out_path)),
                ![r].pc = "returned"]
       \/ /\ MergeRaise(r, "write")
          /\ UNCHANGED fs
    /\ UNCHANGED <<dirs, sruns, pvars, avars, uvars>>

\* QThread.finished after run() has returned; line 784 connects it to
\* btn_merge.setEnabled(True)
MergeThreadFinished(r) ==
    /\ r \in DOMAIN mruns
    /\ mruns[r].pc = "returned"
    /\ mruns' = [mruns EXCEPT ![r].pc = "finished"]
    /\ btn_merge' = TRUE
    /\ UNCHANGED <<fs, dirs, sruns, pvars, avars, items, shared_plans, merge_form, btn_split, split_form>>

MergeStep(r) ==
    \/ MergeStart(r)
    \/ MergeItem(r)
    \/ MergeMakedirs(r)
    \/ MergeOpen(r)
    \/ MergeWrite(r)
    \/ MergeThreadFinished(r)


\* ------------------------------------------------------------ SplitWorker
\* str(n) for n >= 0, as a sequence of digit characters
DigitChar(d) ==
    CASE d = 0 -> "0" [] d = 1 -> "1" [] d = 2 -> "2" [] d = 3 -> "3"
      [] d = 4 -> "4" [] d = 5 -> "5" [] d = 6 -> "6" [] d = 7 -> "7"
      [] d = 8 -> "8" [] OTHER -> "9"

RECURSIVE Str(_)
Str(n) == IF n < 10 THEN <<DigitChar(n)>>
          ELSE Append(Str(n \div 10), DigitChar(n % 10))

\* str.zfill(width): zeros on the left up to width, never truncating
RECURSIVE ZFill(_, _)
ZFill(s, width) == IF Len(s) >= width THEN s ELSE ZFill(<<"0">> \o s, width)

\* SplitWorker.__init__, lines 203-210
NewSplitWorker(src_path, out_dir, filename_prefix, mode, chunk_size, ranges_text, pad, start_index) ==
    [src_path |-> src_path, out_dir |-> out_dir,
     filename_prefix |-> IF filename_prefix = "" THEN "split" ELSE filename_prefix,
     mode |-> mode, chunk_size |-> Max2(1, chunk_size),
     ranges_text |-> ranges_text, pad |-> Max2(1, pad),
     start_index |-> start_index,
     pc |-> "start", reader |-> File("absent", <<>>), total |-> 0,
     idx |-> start_index, units |-> <<>>, k |-> 1,
     written |-> <<>>, events |-> <<>>]

SplitOutPath_NoZFill(w) ==
    <<w.out_dir, w.filename_prefix, "_">> \o Str(w.idx) \o <<".pdf">>

\* line 235: os.path.join(out_dir, f"{prefix}_{str(idx).zfill(pad)}.pdf")
SplitOutPath(w) ==
    <<w.out_dir, w.filename_prefix, "_">> \o ZFill(Str(w.idx), w.pad)
        \o <<".pdf">>

\* the (s, e) calls of write_range of the three loops, in order
RECURSIVE EachUnits(_, _)
EachUnits(p, total) ==
    IF p > total THEN <<>> ELSE << <<p, p>> >> \o EachUnits(p + 1, total)

RECURSIVE ChunkUnits(_, _, _, _)
ChunkUnits(c, chunks, chunk_size, total) ==
    IF c >= chunks THEN <<>>
    ELSE << <<c * chunk_size + 1, Min2(total, (c + 1) * chunk_size)>> >>
         \o ChunkUnits(c + 1, chunks, chunk_size, total)

SplitUnits_FloorChunks(w, total) ==
    CASE w.mode = MODE_EACH -> EachUnits(1, total)
      [] w.mode = MODE_CHUNK ->
            ChunkUnits(0, total \div w.chunk_size, w.chunk_size, total)
      [] OTHER -> parse_ranges(w.ranges_text, total)

SplitUnits(w, total) ==
    CASE w.mode = MODE_EACH -> EachUnits(1, total)
      [] w.mode = MODE_CHUNK ->
            ChunkUnits(0, (total + w.chunk_size - 1) \div w.chunk_size,
                       w.chunk_size, total)
      [] OTHER -> parse_ranges(w.ranges_text, total)

\* the value of progress.emit after the k-th unit <<s, e>> (lines 244, 253, 261)
SplitPercent(w, k) ==
    CASE w.mode = MODE_EACH -> Percent(w.units[k][1], w.total)
      [] w.mode = MODE_CHUNK -> Percent(w.units[k][2], w.total)
      [] OTHER -> Percent(k, Len(w.units))

SplitRaise(r, why) ==
    sruns' = [sruns EXCEPT ![r].events = Append(@, FinishedError(why)),
                           ![r].pc = "returned"]

SplitStart_NoRangeCheck(r) ==
    /\ r \in DOMAIN sruns
    /\ sruns[r].pc = "start"
    /\ LET w == sruns[r]
           dir == IF w.out_dir = "" THEN "." ELSE w.out_dir
       IN
       IF ~Exists(w.src_path) THEN
            SplitRaise(r, "no source") /\ UNCHANGED dirs
       ELSE
         \/ /\ dir \notin dirs
            /\ SplitRaise(r, "makedirs")
            /\ UNCHANGED dirs
         \/ /\ dirs' = dirs \cup {dir}
            /\ IF OpenRaises(w.src_path) THEN SplitRaise(r, "open")
               ELSE IF IsEncrypted(w.src_path) /\ DecryptRaises(w.src_path)
                    THEN SplitRaise(r, "encrypted")
               ELSE IF KindOf(w.src_path) = "enc_none"
                    THEN SplitRaise(r, "not decrypted")
               ELSE
                 LET total == Len(fs[w.src_path].pages)
                     units == SplitUnits(w, total)
                 IN
                 IF FALSE
                 THEN SplitRaise(r, "bad ranges")
                 ELSE sruns' = [sruns EXCEPT
                        ![r].reader = fs[w.src_path],
                        ![r].total = total,
                        ![r].units = units,
                        ![r].pc = IF units = <<>> THEN "emit_ok" ELSE "open"]
    /\ UNCHANGED <<fs, mruns, pvars, avars, uvars>>

\* lines 214-228 and the choice of the loop (241, 245, 254-258)
SplitStart(r) ==
    /\ r \in DOMAIN sruns
    /\ sruns[r].pc = "start"
    /\ LET w == sruns[r]
           dir == IF w.out_dir = "" THEN "." ELSE w.out_dir
       IN
       IF ~Exists(w.src_path) THEN
            SplitRaise(r, "no source") /\ UNCHANGED dirs
       ELSE
         \/ /\ dir \notin dirs
            /\ SplitRaise(r, "makedirs")
            /\ UNCHANGED dirs
         \/ /\ dirs' = dirs \cup {dir}
            /\ IF OpenRaises(w.src_path) THEN SplitRaise(r, "open")
               ELSE IF IsEncrypted(w.src_path) /\ DecryptRaises(w.src_path)
                    THEN SplitRaise(r, "encrypted")
               ELSE IF KindOf(w.src_path) = "enc_none"
                    THEN SplitRaise(r, "not decrypted")
               ELSE
                 LET total == Len(fs[w.src_path].pages)
                     units == SplitUnits(w, total)
                 IN
                 IF w.mode = MODE_RANGES /\ units = <<>>
                 THEN SplitRaise(r, "bad ranges")
                 ELSE sruns' = [sruns EXCEPT
                        ![r].reader = fs[w.src_path],
                        ![r].total = total,
                        ![r].units = units,
                        ![r].pc = IF units = <<>> THEN "emit_ok" ELSE "open"]
    /\ UNCHANGED <<fs, mruns, pvars, avars, uvars>>

\* reader.pages[p] raises for some p of range(s1 - 1, e1)
RangeRaises(w, s1, e1) ==
    \/ e1 > Len(w.reader.pages)
    \/ w.reader.kind = "badpage" /\ e1 = Len(w.reader.pages)

SplitOpen_MessageFirst(r) ==
    /\ r \in DOMAIN sruns
    /\ sruns[r].pc = "open"
    /\ LET w == sruns[r]
           s1 == w.units[w.k][1]
           e1 == w.units[w.k][2]
       IN
       IF RangeRaises(w, s1, e1) THEN SplitRaise(r, "page") /\ UNCHANGED fs
       ELSE \/ /\ fs' = WriteFile(SplitOutPath(w), File("partial", <<>>))
               /\ sruns' = [sruns EXCEPT
                     ![r].events = Append(@, <<"message", "output",
                                               SplitOutPath(w), s1, e1>>),
                     ![r].pc = "write"]
            \/ /\ SplitRaise(r, "open")
               /\ UNCHANGED fs
    /\ UNCHANGED <<dirs, mruns, pvars, avars, uvars>>

\* write_range, lines 232-236: the pages are collected and the output file
\* is opened (created or truncated); either may raise
SplitOpen(r) ==
    /\ r \in DOMAIN sruns
    /\ sruns[r].pc = "open"
    /\ LET w == sruns[r]
           s1 == w.units[w.k][1]
           e1 == w.units[w.k][2]
       IN
       IF RangeRaises(w, s1, e1) THEN SplitRaise(r, "page") /\ UNCHANGED fs
       ELSE \/ /\ fs' = WriteFile(SplitOutPath(w), File("partial", <<>>))
               /\ sruns' = [sruns EXCEPT ![r].pc = "write"]
            \/ /\ SplitRaise(r, "open")
               /\ UNCHANGED fs
    /\ UNCHANGED <<dirs, mruns, pvars, avars, uvars>>

\* write_range, lines 237-239, and the progress.emit after it
SplitWrite(r) ==
    /\ r \in DOMAIN sruns
    /\ sruns[r].pc = "write"
    /\ LET w == sruns[r]
           s1 == w.units[w.k][1]
           e1 == w.units[w.k][2]
       IN
       \/ /\ fs' = WriteFile(SplitOutPath(w),
                             Doc(SubSeq(w.reader.pages, s1, e1), <<>>))
          /\ sruns' = [sruns EXCEPT
                ![r].events = Append(Append(@,
                                  <<"message", "output", SplitOutPath(w), s1, e1>>),
                                  Progress(SplitPercent(w, w.k))),
                ![r].written = Append(@, <<SplitOutPath(w), s1, e1>>),
                ![r].idx = @ + 1,
                ![r].k = @ + 1,
                ![r].pc = IF w.k = Len(w.units) THEN "emit_ok" ELSE "open"]
       \/ /\ SplitRaise(r, "write")
          /\ UNCHANGED fs
    /\ UNCHANGED <<dirs, mruns, pvars, avars, uvars>>

\* line 263
SplitEmitOk(r) ==
    /\ r \in DOMAIN sruns
    /\ sruns[r].pc = "emit_ok"
    /\ sruns' = [sruns EXCEPT
            ![r].events = Append(@, FinishedOk(<<sruns[r].out_dir>>)),
            ![r].pc = "returned"]
    /\ UNCHANGED <<fs, dirs, mruns, pvars, avars, uvars>>

\* QThread.finished; line 850 connects it to btn_split.setEnabled(True)
SplitThreadFinished(r) ==
    /\ r \in DOMAIN sruns
    /\ sruns[r].pc = "returned"
    /\ sruns' = [sruns EXCEPT ![r].pc = "finished"]
    /\ btn_split' = TRUE
    /\ UNCHANGED <<fs, dirs, mruns, pvars, avars, items, shared_plans, merge_form, btn_merge, split_form>>

SplitStep(r) ==
    \/ SplitStart(r)
    \/ SplitOpen(r)
    \/ SplitWrite(r)
    \/ SplitEmitOk(r)
    \/ SplitThreadFinished(r)

\* ------------------------------------------------ the edit tab: the pages
MaxSeq == 4         \* longest _edit_pages a duplicate may produce
MaxQuarters == 4    \* the /Rotate entries stay within 90 * MaxQuarters degrees

\* the files the edit tab is pointed at
EditFS ==
    (A_PDF :> File("plain", <<"a1", "a2">>))
    @@ (B_PDF :> File("plain", <<"b1", "b2">>))
    @@ (C_PDF :> File("corrupt", <<>>))
    @@ (D_PDF :> File("enc_raise", <<"d1">>))
    @@ (Z_PDF :> File("plain", <<>>))

EditSources == {A_PDF, C_PDF, D_PDF, Z_PDF, MISSING_PDF}

\* the /Rotate entry a page has in its file
StoredRotate(page) == IF page = "a2" THEN 270 ELSE 0

Range(s) == {s[k] : k \in DOMAIN s}

\* sorted({i.row() for i in selectedIndexes()})
RECURSIVE SortedRows(_)
SortedRows(S) ==
    IF S = {} THEN <<>>
    ELSE LET m == CHOOSE x \in S : \A y \in S : x <= y
         IN <<m>> \o SortedRows(S \ {m})

\* sorted(..., reverse=True)
Reverse(s) == [i \in 1..Len(s) |-> s[Len(s) + 1 - i]]

\* list.pop(r) for 0 <= r < len(pages)
Pop(pages, r) == SubSeq(pages, 1, r) \o SubSeq(pages, r + 2, Len(pages))

\* "for r in rows: self._edit_pages.pop(r)"; pop raises IndexError for a
\* row that is not a position of the list
RECURSIVE PopRows(_, _)
PopRows(pages, rows) ==
    IF rows = <<>> THEN [pages |-> pages, raised |-> FALSE]
    ELSE IF Head(rows) >= Len(pages) THEN [pages |-> pages, raised |-> TRUE]
    ELSE PopRows(Pop(pages, Head(rows)), Tail(rows))

DeletePages_Ascending(pages, cur, S) ==
    LET rows == SortedRows(S)
        res == PopRows(pages, rows)
    IN
    IF res.raised
    THEN [pages |-> res.pages, current_row |-> cur, raised |-> TRUE]
    ELSE [pages |-> res.pages,
          current_row |-> IF res.pages = <<>> THEN -1
                          ELSE Min2(rows[1], Len(res.pages) - 1),
          raised |-> FALSE]

\* on_edit_delete_pages, lines 912-919, for the selected rows S: the list
\* after the pops and the row setCurrentRow is given; when a pop raises the
\* slot is left before _refresh_edit_list and setCurrentRow
DeletePages(pages, cur, S) ==
    LET rows == Reverse(SortedRows(S))
        res == PopRows(pages, rows)
    IN
    IF res.raised
    THEN [pages |-> res.pages, current_row |-> cur, raised |-> TRUE]
    ELSE [pages |-> res.pages,
          current_row |-> IF res.pages = <<>> THEN -1
                          ELSE Min2(rows[Len(rows)], Len(res.pages) - 1),
          raised |-> FALSE]

\* on_edit_extract_pages, lines 931-933: the pages handed to the writer
ExtractPages(pages, S) ==
    LET rows == SortedRows(S)
    IN
    IF \E k \in DOMAIN rows : rows[k] >= Len(pages)
    THEN [out |-> <<>>, raised |-> TRUE]
    ELSE [out |-> [k \in DOMAIN rows |-> pages[rows[k] + 1]], raised |-> FALSE]

\* rotate_page_inplace, lines 104-113: page.rotate(deg) of pypdf adds deg to
\* the page's /Rotate entry; it raises only for a deg that is no multiple
\* of 90, and the window passes -90 and +90 (lines 597-598)
rotate_page_inplace(rotate, deg) == rotate + deg

\* "for r in rows: rotate_page_inplace(self._edit_pages[r], deg)": the
\* /Rotate entries afterwards; _edit_pages[r] raises IndexError for a row
\* that is not a position of the list
RECURSIVE RotatePages(_, _, _, _)
RotatePages(pages, rot, rows, deg) ==
    IF rows = <<>> THEN [rot |-> rot, raised |-> FALSE]
    ELSE IF Head(rows) >= Len(pages) THEN [rot |-> rot, raised |-> TRUE]
    ELSE RotatePages(pages,
                     [rot EXCEPT ![pages[Head(rows) + 1]]
                                    = rotate_page_inplace(@, deg)],
                     Tail(rows), deg)

DuplicatePages_Front(pages, S) ==
    LET rows == SortedRows(S)
    IN
    IF \E k \in DOMAIN rows : rows[k] >= Len(pages)
    THEN [pages |-> pages, raised |-> TRUE]
    ELSE [pages |-> [k \in DOMAIN rows |-> pages[rows[k] + 1]] \o pages,
          raised |-> FALSE]

\* on_edit_duplicate_pages, lines 955-959: copies holds the same page
\* objects, not copies of them
DuplicatePages(pages, S) ==
    LET rows == SortedRows(S)
    IN
    IF \E k \in DOMAIN rows : rows[k] >= Len(pages)
    THEN [pages |-> pages, raised |-> TRUE]
    ELSE [pages |-> pages \o [k \in DOMAIN rows |-> pages[rows[k] + 1]],
          raised |-> FALSE]

\* ----------------------------------------------- the edit tab: the zoom
\* _preview_scale is a float; the model keeps it in thousandths, truncated
ScaleUnit == 1000
MIN_SCALE == ScaleUnit \div 10
MAX_SCALE == 8 * ScaleUnit

\* lines 605-606: zoom-in passes mul = 1.15, zoom-out mul = 1/1.15
ZoomMul(scale, mul) ==
    IF mul = "in" THEN (scale * 115) \div 100 ELSE (scale * 100) \div 115

\* the rows the list widget can report as selected: it shows one row per
\* entry of _edit_pages (_refresh_edit_list, lines 869-873)
Selections == SUBSET (0..(Len(edit_pages) - 1))

WithinTurns(rot) ==
    \A p \in DOMAIN rot :
        rot[p] >= -90 * MaxQuarters /\ rot[p] <= 90 * MaxQuarters

EditIdle ==
    /\ edit_pages = <<>>
    /\ page_rotate = <<>>
    /\ current_row = -1
    /\ preview_zoom_mode = "fitw"
    /\ preview_scale = ScaleUnit

\* _edit_load_from_path, lines 875-898 (txt_edit_src.textChanged)
OnEditLoad(p) ==
    /\ IF ~Exists(p) \/ OpenRaises(p) \/ KindOf(p) = "enc_none"
       THEN /\ edit_pages' = <<>>
            /\ page_rotate' = <<>>
            /\ current_row' = -1
       ELSE IF IsEncrypted(p) /\ DecryptRaises(p)
       THEN UNCHANGED <<edit_pages, page_rotate, current_row>>
       ELSE /\ edit_pages' = fs[p].pages
            /\ page_rotate' = [page \in Range(fs[p].pages) |-> StoredRotate(page)]
            /\ current_row' = IF fs[p].pages = <<>> THEN -1 ELSE 0
    /\ UNCHANGED <<preview_zoom_mode, preview_scale, pvars, evars, uvars>>

\* the user makes a row of the list the current one
OnSelectRow(row) ==
    /\ row \in 0..(Len(edit_pages) - 1)
    /\ current_row' = row
    /\ UNCHANGED <<edit_pages, page_rotate, preview_zoom_mode, preview_scale>>
    /\ UNCHANGED <<pvars, evars, uvars>>

\* on_edit_delete_pages, lines 909-920
OnEditDelete(S) ==
    /\ IF edit_pages = <<>> \/ S = {}
       THEN UNCHANGED <<edit_pages, current_row>>
       ELSE LET res == DeletePages(edit_pages, current_row, S)
            IN /\ edit_pages' = res.pages
               /\ current_row' = res.current_row
    /\ UNCHANGED <<page_rotate, preview_zoom_mode, preview_scale>>
    /\ UNCHANGED <<pvars, evars, uvars>>

\* on_edit_rotate, lines 939-950; _refresh_edit_list clears the list widget
\* and with it the current row
OnEditRotate(S, deg) ==
    /\ IF edit_pages = <<>> \/ S = {}
       THEN UNCHANGED <<page_rotate, current_row>>
       ELSE LET res == RotatePages(edit_pages, page_rotate, SortedRows(S), deg)
            IN /\ WithinTurns(res.rot)
               /\ page_rotate' = res.rot
               /\ current_row' = IF res.raised THEN current_row ELSE -1
    /\ UNCHANGED <<edit_pages, preview_zoom_mode, preview_scale>>
    /\ UNCHANGED <<pvars, evars, uvars>>

\* on_edit_duplicate_pages, lines 952-961
OnEditDuplicate(S) ==
    /\ IF edit_pages = <<>> \/ S = {}
       THEN UNCHANGED <<edit_pages, current_row>>
       ELSE LET res == DuplicatePages(edit_pages, S)
            IN /\ Len(res.pages) <= MaxSeq
               /\ edit_pages' = res.pages
               /\ current_row' = IF res.raised THEN current_row ELSE -1
    /\ UNCHANGED <<page_rotate, preview_zoom_mode, preview_scale>>
    /\ UNCHANGED <<pvars, evars, uvars>>

\* the files and range texts on_edit_insert_pages is given by its dialogs;
\* the reader of the insert is a new one, its page objects are named after
\* the pages of its file, which is never the file open in the tab
InsertSources == {B_PDF, C_PDF, D_PDF, Z_PDF}
InsertTexts == {<<>>, <<"x">>, <<"1">>, <<"2", ",", "1", "-", "2">>}

\* list.insert(i, pg): before position i, at the end for i >= len(pages)
InsertAt(pages, i, pg) ==
    IF i >= Len(pages) THEN Append(pages, pg)
    ELSE SubSeq(pages, 1, i) \o <<pg>> \o SubSeq(pages, i + 1, Len(pages))

\* lines 986-989: r.pages[i] for the pages of each interval in turn;
\* r.pages[i] raises IndexError for a page the source does not have
RECURSIVE PagesOfRanges(_, _)
PagesOfRanges(src_pages, rs) ==
    IF rs = <<>> THEN [pages |-> <<>>, raised |-> FALSE]
    ELSE LET s1 == Head(rs)[1]
             e1 == Head(rs)[2]
             rest == PagesOfRanges(src_pages, Tail(rs))
         IN IF e1 > Len(src_pages) \/ rest.raised
            THEN [pages |-> <<>>, raised |-> TRUE]
            ELSE [pages |-> SubSeq(src_pages, s1, e1) \o rest.pages,
                  raised |-> FALSE]

\* lines 990-991
RECURSIVE InsertAll(_, _, _)
InsertAll(pages, pos, ins) ==
    IF ins = <<>> THEN pages
    ELSE InsertAll(InsertAt(pages, pos, Head(ins)), pos + 1, Tail(ins))

\* on_edit_insert_pages, lines 966-993, once the source has been read: the
\* list and the current row afterwards; an exception of lines 986-989 leaves
\* the slot before any insert
InsertPages(pages, cur, src_pages, text) ==
    LET pos == IF cur >= 0 THEN cur ELSE 0
        rs == parse_ranges(text, Len(src_pages))
        sel == PagesOfRanges(src_pages, rs)
    IN
    IF Strip(text) = <<>> \/ rs = <<>>
    THEN [pages |-> pages, current_row |-> cur, added |-> <<>>, raised |-> FALSE]
    ELSE IF sel.raised
    THEN [pages |-> pages, current_row |-> cur, added |-> <<>>, raised |-> TRUE]
    ELSE [pages |-> InsertAll(pages, pos, sel.pages), current_row |-> pos,
          added |-> sel.pages, raised |-> FALSE]

\* on_edit_insert_pages, lines 963-994
OnEditInsert(src, text) ==
    /\ IF OpenRaises(src) \/ (IsEncrypted(src) /\ DecryptRaises(src))
          \/ KindOf(src) = "enc_none"
       THEN UNCHANGED <<edit_pages, page_rotate, current_row>>
       ELSE LET res == InsertPages(edit_pages, current_row, fs[src].pages, text)
            IN /\ Len(res.pages) <= MaxSeq
               /\ edit_pages' = res.pages
               /\ current_row' = res.current_row
               /\ page_rotate' =
                    page_rotate @@ [page \in Range(res.added) |-> StoredRotate(page)]
    /\ UNCHANGED <<preview_zoom_mode, preview_scale, pvars, evars, uvars>>

\* ----------------------------------------------- the edit tab: _set_zoom
SetZoom_FitResets(mode, mul) ==
    /\ IF mode \in {"fitw", "fitp"}
       THEN /\ preview_zoom_mode' = mode
            /\ preview_scale' = ScaleUnit
       ELSE /\ preview_zoom_mode' = "free"
            /\ preview_scale' =
                 Max2(MIN_SCALE, Min2(MAX_SCALE, ZoomMul(preview_scale, mul)))
    /\ UNCHANGED <<edit_pages, page_rotate, current_row, pvars, evars, uvars>>

\* _set_zoom, lines 1024-1031
SetZoom(mode, mul) ==
    /\ IF mode \in {"fitw", "fitp"}
       THEN /\ preview_zoom_mode' = mode
            /\ preview_scale' = preview_scale
       ELSE /\ preview_zoom_mode' = "free"
            /\ preview_scale' =
                 Max2(MIN_SCALE, Min2(MAX_SCALE, ZoomMul(preview_scale, mul)))
    /\ UNCHANGED <<edit_pages, page_rotate, current_row, pvars, evars, uvars>>

\* ------------------------------------------- Spec: one run of one worker
PlanFiles == {A_PDF, C_PDF, D_PDF, E_PDF, F_PDF, G_PDF}
Plans == UNION {[1..n -> PlanFiles] : n \in 0..MaxPlan}
OutPaths == {OUT_PDF, NEW_OUT_PDF, A_PDF}

SplitSources == {A_PDF, Z_PDF, C_PDF, D_PDF, E_PDF, F_PDF, G_PDF, MISSING_PDF}
SplitTexts == {<<>>, <<"x">>, <<"1">>, <<"3", "-", "1", ",", "2">>}
SplitModes ==
    {<<MODE_EACH, 1, <<>> >>}
    \cup {<<MODE_CHUNK, n, <<>> >> : n \in {0, 2}}
    \cup {<<MODE_RANGES, 1, t>> : t \in SplitTexts}

InitIdle ==
    /\ p_text = <<>>
    /\ p_total = 0
    /\ p_pc = "idle"
    /\ p_rngs = <<>>
    /\ fs = InitFS
    /\ dirs = InitDirs
    /\ items = <<>>
    /\ shared_plans = {}
    /\ merge_form = MergeFormInit
    /\ split_form = SplitFormInit
    /\ EditIdle

Init ==
    /\ InitIdle
    /\ \/ /\ \E plan \in Plans, out \in OutPaths, bm \in BOOLEAN :
                mruns = <<NewMergeWorker(plan, out, bm)>>
          /\ sruns = <<>>
          /\ btn_merge = FALSE
          /\ btn_split = TRUE
       \/ /\ \E src \in SplitSources, dir \in {"", "new"},
               prefix \in {"", "part"}, m \in SplitModes,
               pad \in {0, 2}, start \in {0, 9} :
                sruns = <<NewSplitWorker(src, dir, prefix, m[1], m[2], m[3],
                                         pad, start)>>
          /\ mruns = <<>>
          /\ btn_merge = TRUE
          /\ btn_split = FALSE

Next ==
    \/ \E r \in DOMAIN mruns : MergeStep(r)
    \/ \E r \in DOMAIN sruns : SplitStep(r)

Spec == Init /\ [][Next]_vars

\* ------------------------------------------------ SpecUI: the main window
MaxRuns == 2        \* worker threads created in one behaviour of SpecUI

UIFS ==
    (A_PDF :> File("plain", <<"a1">>))
    @@ (D_PDF :> File("enc_raise", <<"d1">>))

\* natural_key(basename) orders the file names of the model alphabetically
\* (none of them contains a digit run)
NameRank(path) ==
    CASE path = A_PDF -> 1 [] path = C_PDF -> 2 [] path = D_PDF -> 3
      [] path = E_PDF -> 4 [] path = F_PDF -> 5 [] path = G_PDF -> 6
      [] path = MISSING_PDF -> 7 [] path = OUT_PDF -> 8 [] OTHER -> 9

RECURSIVE SortByName(_)
SortByName(S) ==
    IF S = {} THEN <<>>
    ELSE LET first == CHOOSE x \in S : \A y \in S : NameRank(x) <= NameRank(y)
         IN <<first>> \o SortByName(S \ {first})

\* _collect_pdfs(folder, recursive=False) with the default sort order
\* (file name, natural order, ascending): the *.pdf entries of the folder
CollectPdfs(folder) ==
    SortByName({path \in DOMAIN fs : Len(path) = 2 /\ path[1] = ""})

\* the field contents the user chooses among
MergeForms ==
    {MergeFormInit,
     [txt_folder |-> ".", txt_out |-> <<>>, chk_bookmark |-> FALSE],
     [txt_folder |-> ".", txt_out |-> OUT_PDF, chk_bookmark |-> TRUE]}

SplitForms ==
    {SplitFormInit,
     [SplitFormInit EXCEPT !.txt_src = A_PDF, !.mode = MODE_RANGES,
                           !.txt_ranges = <<"1">>, !.txt_prefix = "page"]}

InitUI ==
    /\ p_text = <<>>
    /\ p_total = 0
    /\ p_pc = "idle"
    /\ p_rngs = <<>>
    /\ fs = UIFS
    /\ dirs = InitDirs
    /\ mruns = <<>>
    /\ sruns = <<>>
    /\ items = <<>>
    /\ shared_plans = {}
    /\ merge_form = MergeFormInit
    /\ btn_merge = TRUE
    /\ btn_split = TRUE
    /\ split_form = SplitFormInit
    /\ EditIdle

\* the user edits the fields of the merge tab (typing, on_browse,
\* on_select_out, the check box)
EditMergeForm ==
    /\ \E f \in MergeForms : f # merge_form /\ merge_form' = f
    /\ UNCHANGED <<evars, pvars, avars, items, shared_plans, btn_merge, btn_split, split_form>>

\* the user edits the fields of the split tab
EditSplitForm ==
    /\ \E f \in SplitForms : f # split_form /\ split_form' = f
    /\ UNCHANGED <<evars, pvars, avars, items, shared_plans, btn_merge, btn_split, merge_form>>

\* on_scan, lines 753-761
OnScan ==
    /\ merge_form.txt_folder # ""
    /\ items' = CollectPdfs(merge_form.txt_folder)
    /\ shared_plans' = {}
    /\ UNCHANGED <<evars, pvars, avars, merge_form, btn_merge, btn_split, split_form>>

\* on_merge, lines 770-785.  It is the slot of btn_merge.clicked (line 408),
\* which a disabled button does not emit, and of the toolbar action
\* act_merge (line 619), which nothing disables.
\* variant: line 778 passes self.items itself, not the copy self.items[:]
OnMerge_NoCopy(via) ==
    /\ via = "button" => btn_merge
    /\ Len(mruns) + Len(sruns) < MaxRuns
    /\ items # <<>>
    /\ merge_form.txt_out # <<>>
    /\ btn_merge' = FALSE
    /\ mruns' = Append(mruns, NewMergeWorker(items, merge_form.txt_out,
                                             merge_form.chk_bookmark))
    /\ shared_plans' = shared_plans \cup {Len(mruns) + 1}
    /\ UNCHANGED <<fs, dirs, sruns, pvars, avars, items, merge_form, btn_split, split_form>>

\* The worker is given self.items[:] (line 778), a new list with the items
\* of the window's list: it is not the list object self.items.
OnMerge(via) ==
    /\ via = "button" => btn_merge
    /\ Len(mruns) + Len(sruns) < MaxRuns
    /\ items # <<>>
    /\ merge_form.txt_out # <<>>
    /\ btn_merge' = FALSE
    /\ mruns' = Append(mruns, NewMergeWorker(items, merge_form.txt_out,
                                             merge_form.chk_bookmark))
    /\ shared_plans' = shared_plans
    /\ UNCHANGED <<fs, dirs, sruns, pvars, avars, items, merge_form, btn_split, split_form>>

\* on_split, lines 826-851: slot of btn_split.clicked (line 488) and of the
\* toolbar action act_split (line 621)
OnSplit(via) ==
    /\ via = "button" => btn_split
    /\ Len(mruns) + Len(sruns) < MaxRuns
    /\ split_form.txt_src # <<>>
    /\ LET f == split_form
           outdir == IF f.txt_outdir = "" THEN "split" ELSE f.txt_outdir
           prefix == IF f.txt_prefix = "" THEN "part" ELSE f.txt_prefix
           chunk == IF f.mode = MODE_CHUNK THEN f.spin_chunk ELSE 1
           ranges == IF f.mode = MODE_RANGES THEN f.txt_ranges ELSE <<>>
       IN sruns' = Append(sruns, NewSplitWorker(f.txt_src, outdir, prefix, f.mode,
                                 chunk, ranges, f.spin_pad, f.spin_start))
    /\ btn_split' = FALSE
    /\ UNCHANGED <<fs, dirs, mruns, pvars, avars, items, shared_plans, merge_form, btn_merge, split_form>>

NextUI ==
    \/ EditMergeForm
    \/ EditSplitForm
    \/ OnScan
    \/ \E via \in {"button", "toolbar"} : OnMerge(via)
    \/ \E via \in {"button", "toolbar"} : OnSplit(via)
    \/ \E r \in DOMAIN mruns : MergeStep(r)
    \/ \E r \in DOMAIN sruns : SplitStep(r)

SpecUI == InitUI /\ [][NextUI]_vars

\* ----------------------------------- SpecList: the item list of the merge tab
\* the rows the user has selected in list_widget
ItemSelections == SUBSET (0..(Len(items) - 1))

\* lines 715-720: takeItem(row) and insertItem(new_row, item) for the rows in
\* ascending order, for the rows whose target is a row of the list
RECURSIVE MoveRows(_, _, _)
MoveRows(list, rows, delta) ==
    IF rows = <<>> THEN list
    ELSE LET row == Head(rows)
             new_row == row + delta
             moved == IF 0 <= new_row /\ new_row < Len(list)
                      THEN InsertAt(Pop(list, row), new_row, list[row + 1])
                      ELSE list
         IN MoveRows(moved, Tail(rows), delta)

\* lines 726-728: takeItem(row - idx) and insertItem(idx, item) for the
\* idx-th of the rows in ascending order
RECURSIVE MoveTopRows(_, _, _)
MoveTopRows(list, rows, idx) ==
    IF rows = <<>> THEN list
    ELSE LET row == Head(rows) - idx
         IN MoveTopRows(InsertAt(Pop(list, row), idx, list[row + 1]),
                        Tail(rows), idx + 1)

\* lines 734-736: takeItem(row) and addItem(item) for the rows in
\* descending order
RECURSIVE MoveBottomRows(_, _)
MoveBottomRows(list, rows) ==
    IF rows = <<>> THEN list
    ELSE MoveBottomRows(Append(Pop(list, Head(rows)), list[Head(rows) + 1]),
                        Tail(rows))

\* lines 741-742: takeItem(row) for the rows in descending order
RECURSIVE TakeRows(_, _)
TakeRows(list, rows) ==
    IF rows = <<>> THEN list
    ELSE TakeRows(Pop(list, Head(rows)), Tail(rows))

\* _sync_model_from_list, lines 706-709: self.items is bound to a new list,
\* the items of the old one in the order of the paths of list_widget (every
\* path of the widget is the path of an item of self.items)
SyncModelFromList(new_paths) ==
    /\ items' = new_paths
    /\ shared_plans' = {}

\* _move_selected(delta), lines 711-721: btn_up (-1) and btn_down (+1)
OnMoveSelected(S, delta) ==
    /\ S # {}
    /\ SyncModelFromList(MoveRows(items, SortedRows(S), delta))
    /\ UNCHANGED <<evars, pvars, avars, merge_form, btn_merge, btn_split, split_form>>

\* _move_top, lines 723-729
OnMoveTop(S) ==
    /\ S # {}
    /\ SyncModelFromList(MoveTopRows(items, SortedRows(S), 0))
    /\ UNCHANGED <<evars, pvars, avars, merge_form, btn_merge, btn_split, split_form>>

\* _move_bottom, lines 731-737
OnMoveBottom(S) ==
    /\ S # {}
    /\ SyncModelFromList(MoveBottomRows(items, Reverse(SortedRows(S))))
    /\ UNCHANGED <<evars, pvars, avars, merge_form, btn_merge, btn_split, split_form>>

\* _remove_selected, lines 739-743
OnRemoveSelected(S) ==
    /\ SyncModelFromList(TakeRows(items, Reverse(SortedRows(S))))
    /\ UNCHANGED <<evars, pvars, avars, merge_form, btn_merge, btn_split, split_form>>

\* _clear_list, lines 745-747: self.items.clear() empties the list object in
\* place, for every holder of that object
OnClearList ==
    /\ items' = <<>>
    /\ mruns' = [r \in DOMAIN mruns |->
                   IF r \in shared_plans THEN [mruns[r] EXCEPT !.items = <<>>]
                   ELSE mruns[r]]
    /\ UNCHANGED <<fs, dirs, sruns, pvars, avars, shared_plans, merge_form, btn_merge, btn_split, split_form>>

MaxListRuns == 1    \* merge workers created in one behaviour of SpecList

\* the window after the user has chosen the folder and the output file
InitList ==
    /\ p_text = <<>>
    /\ p_total = 0
    /\ p_pc = "idle"
    /\ p_rngs = <<>>
    /\ fs = UIFS
    /\ dirs = InitDirs
    /\ mruns = <<>>
    /\ sruns = <<>>
    /\ items = <<>>
    /\ shared_plans = {}
    /\ merge_form = [txt_folder |-> ".", txt_out |-> OUT_PDF, chk_bookmark |-> FALSE]
    /\ btn_merge = TRUE
    /\ btn_split = TRUE
    /\ split_form = SplitFormInit
    /\ EditIdle

NextList ==
    \/ OnScan
    \/ \E via \in {"button", "toolbar"} : Len(mruns) < MaxListRuns /\ OnMerge(via)
    \/ \E S \in ItemSelections : \E delta \in {-1, 1} : OnMoveSelected(S, delta)
    \/ \E S \in ItemSelections : OnMoveTop(S)
    \/ \E S \in ItemSelections : OnMoveBottom(S)
    \/ \E S \in ItemSelections : OnRemoveSelected(S)
    \/ OnClearList
    \/ \E r \in DOMAIN mruns : MergeStep(r)

SpecList == InitList /\ [][NextList]_vars

\* ------------------------------------------------- SpecParse: parse_ranges

Texts == UNION {[1..n -> Chars] : n \in 0..MaxLen}

InitParse ==
    /\ p_text \in Texts
    /\ p_total \in 0..MaxPages
    /\ p_pc = "call"
    /\ p_rngs = <<>>
    /\ fs = InitFS
    /\ dirs = InitDirs
    /\ mruns = <<>>
    /\ sruns = <<>>
    /\ items = <<>>
    /\ shared_plans = {}
    /\ merge_form = MergeFormInit
    /\ btn_merge = TRUE
    /\ btn_split = TRUE
    /\ split_form = SplitFormInit
    /\ EditIdle

CallParseRanges ==
    /\ p_pc = "call"
    /\ p_rngs' = parse_ranges(p_text, p_total)
    /\ p_pc' = "returned"
    /\ UNCHANGED <<p_text, p_total>>
    /\ UNCHANGED <<evars, uvars, avars>>

NextParse == CallParseRanges

SpecParse == InitParse /\ [][NextParse]_vars

\* ---------------------------------- SpecEdit: the page list of the edit tab
InitEdit ==
    /\ p_text = <<>>
    /\ p_total = 0
    /\ p_pc = "idle"
    /\ p_rngs = <<>>
    /\ fs = EditFS
    /\ dirs = InitDirs
    /\ mruns = <<>>
    /\ sruns = <<>>
    /\ items = <<>>
    /\ shared_plans = {}
    /\ merge_form = MergeFormInit
    /\ btn_merge = TRUE
    /\ btn_split = TRUE
    /\ split_form = SplitFormInit
    /\ EditIdle

NextEdit ==
    \/ \E p \in EditSources : OnEditLoad(p)
    \/ \E row \in 0..(MaxSeq - 1) : OnSelectRow(row)
    \/ \E S \in Selections : OnEditDelete(S)
    \/ \E S \in Selections, deg \in {-90, 90} : OnEditRotate(S, deg)
    \/ \E S \in Selections : OnEditDuplicate(S)

SpecEdit == InitEdit /\ [][NextEdit]_vars

\* ------------------------------- SpecInsert: pages inserted into the list
NextInsert ==
    \/ \E p \in EditSources : OnEditLoad(p)
    \/ \E row \in 0..(MaxSeq - 1) : OnSelectRow(row)
    \/ \E S \in Selections : OnEditDelete(S)
    \/ \E S \in Selections : OnEditDuplicate(S)
    \/ \E src \in InsertSources, text \in InsertTexts : OnEditInsert(src, text)

SpecInsert == InitEdit /\ [][NextInsert]_vars

\* ------------------------------------- SpecZoom: the zoom of the preview
\* btn_zoom_in, btn_zoom_out, btn_fit_w, btn_fit_p (lines 605-608)
OnZoomIn == SetZoom("free", "in")
OnZoomOut == SetZoom("free", "out")
OnFitWidth == SetZoom("fitw", "none")
OnFitPage == SetZoom("fitp", "none")

NextZoom ==
    \/ OnZoomIn
    \/ OnZoomOut
    \/ OnFitWidth
    \/ OnFitPage

SpecZoom == InitEdit /\ [][NextZoom]_vars

\* ------------------------------------------- claims about parse_ranges
\* The interval list the specification describes, written without the
\* parser's loop: tokens are cut at the comma positions, a number is an
\* optionally signed digit string with blanks around it.
Blank(s, from, to) == \A k \in from..to : s[k] = " "

RefNumeric(s) ==
    \E i \in 1..Len(s) : \E j \in i..Len(s) :
        /\ Blank(s, 1, i - 1)
        /\ Blank(s, j + 1, Len(s))
        /\ \/ \A k \in i..j : s[k] \in Digits
           \/ /\ s[i] \in {"+", "-"}
              /\ i < j
              /\ \A k \in (i + 1)..j : s[k] \in Digits

RECURSIVE Pow10(_)
Pow10(n) == IF n = 0 THEN 1 ELSE 10 * Pow10(n - 1)

RECURSIVE SumOver(_, _)
SumOver(S, s) ==
    IF S = {} THEN 0
    ELSE LET k == CHOOSE x \in S : TRUE
             after == Cardinality({m \in (k + 1)..Len(s) : s[m] \in Digits})
         IN DigitVal(s[k]) * Pow10(after) + SumOver(S \ {k}, s)

RefValue(s) ==
    LET mag == SumOver({k \in 1..Len(s) : s[k] \in Digits}, s)
    IN IF \E k \in 1..Len(s) : s[k] = "-" THEN 0 - mag ELSE mag

\* nearest page of 1..total (total >= 1)
RefClamp(n, total) == IF n < 1 THEN 1 ELSE IF n > total THEN total ELSE n

RefToken(tok, total) ==
    LET dashes == {k \in 1..Len(tok) : tok[k] = "-"} IN
    IF dashes = {} THEN
        IF RefNumeric(tok)
        THEN << <<RefClamp(RefValue(tok), total),
                  RefClamp(RefValue(tok), total)>> >>
        ELSE <<>>
    ELSE
        LET d == CHOOSE k \in dashes : \A m \in dashes : k <= m
            first == SubSeq(tok, 1, d - 1)
            second == SubSeq(tok, d + 1, Len(tok))
        IN
        IF ~RefNumeric(first) THEN <<>>
        ELSE
            LET lo == RefClamp(RefValue(first), total)
                hi == IF RefNumeric(second)
                      THEN RefClamp(RefValue(second), total) ELSE lo
            IN << <<Min2(lo, hi), Max2(lo, hi)>> >>

RECURSIVE RefFrom(_, _, _)
RefFrom(s, lo, total) ==
    LET cuts == {k \in (lo + 1)..Len(s) : s[k] = ","} \cup {Len(s) + 1}
        hi == CHOOSE k \in cuts : \A m \in cuts : k <= m
        here == RefToken(SubSeq(s, lo + 1, hi - 1), total)
    IN IF hi = Len(s) + 1 THEN here ELSE here \o RefFrom(s, hi, total)

RefIntervals(s, total) == RefFrom(s, 0, total)

Str_1_3_5_7_10 == <<"1", "-", "3", ",", "5", ",", "7", "-", "1", "0">>

\* C9: every interval returned by parse_ranges satisfies
\* 1 <= start <= end <= total_pages, for every text and every page count,
\* the page count 0 included.
C9_IntervalsWithinBounds ==
    p_pc = "returned" =>
        \A i \in 1..Len(p_rngs) :
            /\ 1 <= p_rngs[i][1]
            /\ p_rngs[i][1] <= p_rngs[i][2]
            /\ p_rngs[i][2] <= p_total

\* C10: the result of parse_ranges is, token by token and in input order,
\* the interval the specification assigns to each comma-separated token
\* (none for a non-numeric start or page, (start, start) for a non-numeric
\* end, swapped when inverted, clamped otherwise), with nothing merged or
\* reordered; and the worked examples of the specification hold.
C10_TokensToIntervalsInOrder ==
    /\ (p_pc = "returned" /\ p_total >= 1) =>
            p_rngs = RefIntervals(p_text, p_total)
    /\ parse_ranges(Str_1_3_5_7_10, 10) = << <<1, 3>>, <<5, 5>>, <<7, 10>> >>
    /\ parse_ranges(<<"5", "-", "2">>, 10) = << <<2, 5>> >>
    /\ parse_ranges(<<"0", ",", "9", "9">>, 10) = << <<1, 1>>, <<10, 10>> >>
    /\ parse_ranges(<<>>, 10) = <<>>
    /\ parse_ranges(<<"a", "b", "c">>, 10) = <<>>

\* a range with a non-numeric end followed by a page below 1: two tokens,
\* two intervals, in input order
C10_Witness ==
    /\ p_pc = "returned"
    /\ p_total = 3
    /\ p_text = <<"2", "-", ",", "0">>
    /\ p_rngs = << <<2, 2>>, <<1, 1>> >>

\* --------------------------------------------- claims about the workers
IsProgress(e) == e[1] = "progress"
IsTerminal(e) == e[1] \in {"finished_ok", "finished_error"}
Ended(run) == run.pc \in {"returned", "finished"}
LastEvent(run) == run.events[Len(run.events)]

\* the percentages of the progress events of a run, in emission order
ProgressValues(run) ==
    LET ps == SelectSeq(run.events, IsProgress)
    IN [k \in 1..Len(ps) |-> ps[k][2]]

\* the loop over the plan is over
LoopDone(m) == m.pc \in {"makedirs", "open", "write", "returned", "finished"}
                /\ m.items # <<>>

\* C1: a merge run over a plan of n >= 1 items emits exactly n progress
\* events, one per item whether merged or skipped, and the k-th one reports
\* k of n items.
C1_OneProgressPerItem ==
    \A r \in DOMAIN mruns :
        LoopDone(mruns[r]) =>
            LET n == Len(mruns[r].items)
                ps == ProgressValues(mruns[r])
            IN /\ Len(ps) = n
               /\ \A k \in 1..Len(ps) : ps[k] = (100 * k) \div n

NonDecreasing(ps) == \A k \in 1..(Len(ps) - 1) : ps[k] <= ps[k + 1]

\* C2: in every merge run and every split run each progress value lies in
\* 0..100 and the values never decrease; a merge run that has processed all
\* its items has emitted 100 exactly once, as its last progress event.
C2_ProgressBoundedMonotonic ==
    /\ \A r \in DOMAIN mruns :
        LET ps == ProgressValues(mruns[r]) IN
        /\ \A k \in 1..Len(ps) : ps[k] \in 0..100
        /\ NonDecreasing(ps)
        /\ LoopDone(mruns[r]) =>
            /\ Cardinality({k \in 1..Len(ps) : ps[k] = 100}) = 1
            /\ ps[Len(ps)] = 100
    /\ \A r \in DOMAIN sruns :
        LET ps == ProgressValues(sruns[r]) IN
        /\ \A k \in 1..Len(ps) : ps[k] \in 0..100
        /\ NonDecreasing(ps)

\* at most one terminal event, nothing after it, and exactly one once run()
\* has returned
OneTerminalLast(run) ==
    /\ \A k \in 1..Len(run.events) :
          IsTerminal(run.events[k]) => k = Len(run.events) /\ Ended(run)
    /\ Ended(run) => run.events # <<>> /\ IsTerminal(LastEvent(run))

\* C4: every merge run and every split run emits exactly one terminal event
\* (finished_ok or finished_error), no other event of the run follows it,
\* and a run ended by an exception ends with finished_error.
C4_ExactlyOneTerminalEvent ==
    /\ \A r \in DOMAIN mruns : OneTerminalLast(mruns[r])
    /\ \A r \in DOMAIN sruns : OneTerminalLast(sruns[r])

\* a merge run whose final write raised after its progress events, and a
\* split run that raised while writing a file
C4_Witness ==
    \/ \E r \in DOMAIN mruns :
        /\ mruns[r].pc = "returned"
        /\ LastEvent(mruns[r]) = FinishedError("write")
        /\ Len(ProgressValues(mruns[r])) >= 2
    \/ \E r \in DOMAIN sruns :
        /\ sruns[r].pc = "returned"
        /\ LastEvent(sruns[r]) = FinishedError("write")
        /\ Len(ProgressValues(sruns[r])) >= 1

\* the items the merge skips at open or decrypt
Unreadable(path) ==
    path \notin DOMAIN InitFS
    \/ InitFS[path].kind \in {"corrupt", "enc_raise", "enc_none"}

RECURSIVE PagesOfReadable(_)
PagesOfReadable(plan) ==
    IF plan = <<>> THEN <<>>
    ELSE (IF Unreadable(Head(plan)) THEN <<>> ELSE InitFS[Head(plan)].pages)
         \o PagesOfReadable(Tail(plan))

HasSkipMessage(run, path) ==
    \E k \in 1..Len(run.events) :
        run.events[k] \in {Message("skip_error", path),
                           Message("skip_encrypted", path)}

\* C5: a merge run whose plan contains unopenable or undecryptable items is
\* not aborted by them (it fails only if creating the directory or writing
\* the output fails), emits a skip message for each of them, and its output
\* holds exactly the pages of all other items, in plan order and each item's
\* pages in stored order.
C5_SkipsDoNotAbort ==
    \A r \in DOMAIN mruns :
        LET m == mruns[r] IN
        (Ended(m) /\ \E i \in 1..Len(m.items) : Unreadable(m.items[i])) =>
            /\ LastEvent(m)[1] = "finished_error" =>
                    LastEvent(m)[2] \in {"makedirs", "open", "write"}
            /\ \A i \in 1..Len(m.items) :
                    Unreadable(m.items[i]) => HasSkipMessage(m, m.items[i])
            /\ LastEvent(m)[1] = "finished_ok" =>
                    fs[m.out_path].pages = PagesOfReadable(m.items)

\* C6: after a merge run that ends with finished_error, output_path is
\* untouched (absent or with its previous content) or holds the complete
\* merged document, never a partially written one.
C6_FinalWriteAtomic ==
    \A r \in DOMAIN mruns :
        LET m == mruns[r] IN
        (Ended(m) /\ LastEvent(m)[1] = "finished_error") =>
            IF m.out_path \in DOMAIN fs
            THEN \/ m.out_path \in DOMAIN InitFS /\ fs[m.out_path] = InitFS[m.out_path]
                 \/ fs[m.out_path] = Doc(m.writer, m.outline)
            ELSE m.out_path \notin DOMAIN InitFS

\* C7: after a merge run, successful or not, every file of its plan has
\* exactly the content it had when the run started, whatever output_path is.
C7_SourcesNeverModified ==
    \A r \in DOMAIN mruns :
        Ended(mruns[r]) =>
            \A i \in 1..Len(mruns[r].items) :
                fs[mruns[r].items[i]] = InitFS[mruns[r].items[i]]

\* C8: a merge run started with an empty plan emits finished_error as its
\* only event (no progress, no message), writes no file and creates no
\* directory.
C8_EmptyPlanFailsImmediately ==
    \A r \in DOMAIN mruns :
        (mruns[r].items = <<>> /\ mruns[r].pc # "start") =>
            /\ Len(mruns[r].events) = 1
            /\ mruns[r].events[1][1] = "finished_error"
            /\ Ended(mruns[r])
            /\ fs = InitFS
            /\ dirs = InitDirs

\* an empty plan whose run has returned, the new directory still missing
C8_Witness ==
    \E r \in DOMAIN mruns :
        /\ mruns[r].items = <<>>
        /\ mruns[r].out_path = NEW_OUT_PDF
        /\ mruns[r].pc = "returned"

\* run() of the thread has been started and has not returned
Active(run) == ~Ended(run)

\* C3: at most one merge run and at most one split run is active at any
\* time, whatever the user does with the buttons and the toolbar.
C3_NoOverlappingRuns ==
    /\ Cardinality({r \in DOMAIN mruns : Active(mruns[r])}) <= 1
    /\ Cardinality({r \in DOMAIN sruns : Active(sruns[r])}) <= 1

\* ------------------------------------------------- claims on SplitWorker
SplitSucceeded(w) ==
    /\ Ended(w)
    /\ w.events # <<>>
    /\ LastEvent(w)[1] = "finished_ok"

Spans(w) == [k \in 1..Len(w.written) |-> <<w.written[k][2], w.written[k][3]>>]

\* the least q with q * size >= total
CeilDiv(total, size) ==
    CHOOSE q \in 0..total : q * size >= total /\ (q = 0 \/ (q - 1) * size < total)

PartitionInOrder(sp, total) ==
    /\ \A k \in DOMAIN sp : sp[k][1] <= sp[k][2]
    /\ \A k \in 1..(Len(sp) - 1) : sp[k + 1][1] = sp[k][2] + 1
    /\ \A p \in 1..total :
          Cardinality({k \in DOMAIN sp : sp[k][1] <= p /\ p <= sp[k][2]}) = 1
    /\ \A k \in DOMAIN sp : sp[k][1] >= 1 /\ sp[k][2] <= total

\* C11: a successful EachPage or FixedChunk split wrote files whose page
\* spans partition 1..total in increasing order, each file holding exactly
\* the source pages of its span; EachPage wrote total files p-p, FixedChunk
\* wrote ceil(total/size) files of size pages except possibly the last
\* (total = 10, size = 4: 1-4, 5-8, 9-10).
C11_SpansPartitionSource ==
    /\ \A r \in DOMAIN sruns :
          LET w == sruns[r]
              sp == Spans(w)
              n == Len(sp)
          IN
          (SplitSucceeded(w) /\ w.mode \in {MODE_EACH, MODE_CHUNK}) =>
             /\ PartitionInOrder(sp, w.total)
             /\ \A k \in 1..n :
                   /\ w.written[k][1] \in DOMAIN fs
                   /\ fs[w.written[k][1]].kind = "plain"
                   /\ fs[w.written[k][1]].pages
                        = SubSeq(w.reader.pages, sp[k][1], sp[k][2])
             /\ w.mode = MODE_EACH =>
                   /\ n = w.total
                   /\ \A k \in 1..n : sp[k] = <<k, k>>
             /\ w.mode = MODE_CHUNK =>
                   /\ n = CeilDiv(w.total, w.chunk_size)
                   /\ \A k \in 1..(n - 1) :
                         sp[k][2] - sp[k][1] + 1 = w.chunk_size
                   /\ n > 0 => sp[n][2] - sp[n][1] + 1 \in 1..w.chunk_size
    /\ SplitUnits([mode |-> MODE_CHUNK, chunk_size |-> 4], 10)
         = << <<1, 4>>, <<5, 8>>, <<9, 10>> >>

C11_Witness ==
    \E r \in DOMAIN sruns :
        /\ SplitSucceeded(sruns[r])
        /\ sruns[r].mode = MODE_CHUNK
        /\ sruns[r].chunk_size = 2
        /\ Spans(sruns[r]) = << <<1, 2>>, <<3, 3>> >>

\* the decimal digits of n >= 0, with zeros on the left up to pad digits
NumDigits(n) == CHOOSE d \in 1..8 : n < Pow10(d) /\ (d = 1 \/ n >= Pow10(d - 1))

RefPad(n, pad) ==
    LET L == IF NumDigits(n) > pad THEN NumDigits(n) ELSE pad
    IN [i \in 1..L |-> DigitChar((n \div Pow10(L - i)) % 10)]

RefName(w, k) ==
    <<w.out_dir, w.filename_prefix, "_">>
        \o RefPad(w.start_index + k - 1, w.pad) \o <<".pdf">>

C13_NoIntervalsFails ==
    \A r \in DOMAIN sruns :
        LET w == sruns[r]
        IN
        ( /\ Ended(w)
          /\ w.mode = MODE_RANGES
          /\ w.src_path \in DOMAIN InitFS
          /\ Len(InitFS[w.src_path].pages) > 0
          /\ RefIntervals(w.ranges_text, Len(InitFS[w.src_path].pages)) = <<>> )
        => /\ w.events # <<>>
           /\ LastEvent(w)[1] = "finished_error"
           /\ w.written = <<>>
           /\ \A k \in DOMAIN w.events : ~IsProgress(w.events[k])
           /\ fs = InitFS

C13_Witness ==
    \E r \in DOMAIN sruns :
        /\ Ended(sruns[r])
        /\ sruns[r].mode = MODE_RANGES
        /\ sruns[r].src_path = A_PDF
        /\ sruns[r].ranges_text = <<"x">>
        /\ sruns[r].events = <<FinishedError("bad ranges")>>
        /\ fs = InitFS

OutputMessages(w) ==
    {k \in DOMAIN w.events :
        w.events[k][1] = "message" /\ w.events[k][2] = "output"}

\* C14: whenever a split run has emitted the message that reports an output
\* file, that file is on disk, complete and closed; once the run has failed
\* while producing its k-th file, no file with a later index exists and the
\* k-1 files written before are still on disk as they were written.
C14_MessageAfterCompleteFile ==
    \A r \in DOMAIN sruns :
        LET w == sruns[r]
            n == Len(w.written)
        IN
        /\ \A k \in OutputMessages(w) :
              LET e == w.events[k]
              IN /\ e[3] \in DOMAIN fs
                 /\ fs[e[3]] = Doc(SubSeq(w.reader.pages, e[4], e[5]), <<>>)
        /\ Cardinality(OutputMessages(w)) = n
        /\ (Ended(w) /\ LastEvent(w)[1] = "finished_error") =>
              /\ \A path \in DOMAIN fs \ DOMAIN InitFS :
                    \E j \in 1..(n + 1) : path = RefName(w, j)
              /\ \A j \in 1..n :
                    fs[RefName(w, j)]
                      = Doc(SubSeq(w.reader.pages, w.written[j][2], w.written[j][3]), <<>>)

C14_Witness ==
    \E r \in DOMAIN sruns :
        /\ Ended(sruns[r])
        /\ LastEvent(sruns[r])[1] = "finished_error"
        /\ Len(sruns[r].written) = 1
        /\ Cardinality(OutputMessages(sruns[r])) = 1
        /\ RefName(sruns[r], 2) \in DOMAIN fs
        /\ fs[RefName(sruns[r], 2)].kind = "partial"

\* ------------------------------------------------ claims on the edit tab
\* the entries of pages at the rows of S, in ascending row order
PagesAt(pages, S) ==
    LET rows == SortedRows(S) IN [k \in DOMAIN rows |-> pages[rows[k] + 1]]

\* pages without the entries at the rows of S
PagesWithout(pages, S) == PagesAt(pages, (0..(Len(pages) - 1)) \ S)

\* the rotation shown at row i of the list
RotationAt(pages, rot, i) == rot[pages[i + 1]]

RotateOne(rot, i, deg) == RotatePages(edit_pages, rot, <<i>>, deg).rot

\* C16: rotation is arithmetic modulo 360: every page's stored rotation
\* lies in [0, 360); +90 applied four times to a page restores its stored
\* rotation, and so does -90 followed by +90.
C16_RotationModulo360 ==
    /\ \A page \in DOMAIN page_rotate :
          page_rotate[page] >= 0 /\ page_rotate[page] < 360
    /\ \A i \in 0..(Len(edit_pages) - 1) :
          /\ RotateOne(RotateOne(RotateOne(RotateOne(page_rotate, i, 90),
                                            i, 90), i, 90), i, 90)
               = page_rotate
          /\ RotateOne(RotateOne(page_rotate, i, -90), i, 90) = page_rotate

\* the k-th smallest element of the set of rows S
KthRow(S, k) == CHOOSE x \in S : Cardinality({y \in S : y < x}) = k - 1

\* C17: duplicate of the selected rows S on a list of length n gives a list
\* of length n + |S| whose first n entries are the previous entries in the
\* previous order and whose last |S| entries are the selected pages in
\* ascending row order.
C17_DuplicateAppends ==
    \A S \in Selections :
        (edit_pages # <<>> /\ S # {}) =>
            LET n == Len(edit_pages)
                dup == DuplicatePages(edit_pages, S)
            IN
            /\ ~dup.raised
            /\ Len(dup.pages) = n + Cardinality(S)
            /\ SubSeq(dup.pages, 1, n) = edit_pages
            /\ \A k \in 1..Cardinality(S) :
                  dup.pages[n + k] = edit_pages[KthRow(S, k) + 1]

C17_Witness ==
    /\ edit_pages = <<"a1", "a2", "a1", "a2">>
    /\ page_rotate = [page \in {"a1", "a2"} |-> StoredRotate(page)]
    /\ current_row = -1

\* ------------------------------------------------------ claims on the zoom
ClampScale(x) == IF x < MIN_SCALE THEN MIN_SCALE ELSE IF x > MAX_SCALE THEN MAX_SCALE ELSE x

\* C18: every zoom-in, zoom-out, FitWidth or FitPage leaves the stored Free
\* multiplier in [0.1, 8.0]; a step to FitWidth or FitPage changes the
\* policy and keeps the stored multiplier, and a Free step multiplies the
\* multiplier stored before it (clamped), whatever the policy was.
C18_ZoomMultiplierKept ==
    [][ /\ preview_scale' >= MIN_SCALE
        /\ preview_scale' <= MAX_SCALE
        /\ preview_zoom_mode' \in {"fitw", "fitp"} =>
              preview_scale' = preview_scale
        /\ preview_zoom_mode' = "free" =>
              \/ preview_scale' = ClampScale(ZoomMul(preview_scale, "in"))
              \/ preview_scale' = ClampScale(ZoomMul(preview_scale, "out"))
      ]_vars

C18_Witness ==
    /\ preview_zoom_mode = "fitp"
    /\ preview_scale = MAX_SCALE

\* C19: rotate of the selected rows S by deg, on any reachable page list
\* (aliased entries included), changes the rotation of every selected row
\* by deg modulo 360 and leaves the rotation of every other row unchanged.
C19_RotateOnlySelectedRows ==
    \A S \in Selections : \A deg \in {-90, 90} :
        (edit_pages # <<>> /\ S # {}) =>
            LET r == RotatePages(edit_pages, page_rotate, SortedRows(S), deg)
            IN
            /\ ~r.raised
            /\ \A i \in 0..(Len(edit_pages) - 1) :
                  ( RotationAt(edit_pages, r.rot, i)
                    - RotationAt(edit_pages, page_rotate, i)
                    - (IF i \in S THEN deg ELSE 0) ) % 360 = 0

\* C20: delete of the selected rows S removes exactly the entries at those
\* rows as numbered before the call: the other entries stay in their order,
\* the length drops by |S|, and the current row becomes the smaller of the
\* smallest removed row and the new length - 1, or -1 when the list is empty.
C20_DeleteRemovesSelected ==
    \A S \in Selections :
        (edit_pages # <<>> /\ S # {}) =>
            LET n == Len(edit_pages)
                kept == (0..(n - 1)) \ S
                del == DeletePages(edit_pages, current_row, S)
                m == Len(del.pages)
                least == KthRow(S, 1)
            IN
            /\ ~del.raised
            /\ m = n - Cardinality(S)
            /\ \A k \in 1..m : del.pages[k] = edit_pages[KthRow(kept, k) + 1]
            /\ del.current_row =
                  IF m = 0 THEN -1
                  ELSE IF least < m - 1 THEN least ELSE m - 1

C20_Witness ==
    /\ edit_pages = <<>>
    /\ DOMAIN page_rotate = {"a1", "a2"}
    /\ current_row = -1

\* the number of pages the intervals rs select
RECURSIVE SizeOf(_)
SizeOf(rs) == IF rs = <<>> THEN 0 ELSE Head(rs)[2] - Head(rs)[1] + 1 + SizeOf(Tail(rs))

\* the page number of the k-th page the intervals rs select, in range order
RECURSIVE PageNo(_, _)
PageNo(rs, k) ==
    LET size1 == Head(rs)[2] - Head(rs)[1] + 1
    IN IF k <= size1 THEN Head(rs)[1] + k - 1 ELSE PageNo(Tail(rs), k - size1)

\* C21: insert at the position pos of the pages a range text selects from
\* a source gives old[0..pos), then the selected pages in range order with
\* repeats kept, then old[pos..); the length grows by the size of the parsed
\* intervals, and a text that parses to no interval leaves the list as it is.
C21_InsertSplices ==
    \A src \in {B_PDF, Z_PDF} : \A text \in InsertTexts :
        LET old == edit_pages
            n == Len(old)
            pos == IF current_row >= 0 THEN current_row ELSE 0
            src_pages == fs[src].pages
            rs == parse_ranges(text, Len(src_pages))
            size == SizeOf(rs)
            res == InsertPages(old, current_row, src_pages, text)
        IN
        /\ ~res.raised
        /\ Len(res.pages) = n + size
        /\ \A j \in 1..pos : res.pages[j] = old[j]
        /\ \A k \in 1..size : res.pages[pos + k] = src_pages[PageNo(rs, k)]
        /\ \A j \in (pos + 1)..n : res.pages[size + j] = old[j]

\* ------------------------------------------------ claims on the item list
\* the paths of the items whose iteration a run has begun, in order
ReadingPaths(run) ==
    LET IsReading(e) == e[1] = "message" /\ e[2] = "reading"
        sel == SelectSeq(run.events, IsReading)
    IN [k \in 1..Len(sel) |-> sel[k][3]]

IsPrefix(s, t) == Len(s) <= Len(t) /\ s = SubSeq(t, 1, Len(s))

\* C22: the plan of a merge run is the item list of the window at the moment
\* on_merge started it, and no later step (moving, removing, clearing,
\* rescanning, or a step of any run) changes it; the items a run processes
\* are the items of that plan from the first on, in the plan's order, and all
\* of them once its loop is over.
C22_PlanIsStartSnapshot ==
    [][/\ \A r \in DOMAIN mruns : mruns'[r].items = mruns[r].items
       /\ \A r \in (DOMAIN mruns') \ (DOMAIN mruns) : mruns'[r].items = items
       /\ \A r \in DOMAIN mruns' :
              /\ IsPrefix(ReadingPaths(mruns'[r]), mruns'[r].items)
              /\ LoopDone(mruns'[r]) =>
                     ReadingPaths(mruns'[r]) = mruns'[r].items]_vars

\* a run that has processed the first item of its two-item plan and is still
\* in its loop, after the window's list has been emptied or reordered
C22_Witness ==
    \E r \in DOMAIN mruns :
        /\ mruns[r].pc = "loop"
        /\ mruns[r].items = <<A_PDF, D_PDF>>
        /\ mruns[r].idx = 2
        /\ items \in {<<>>, <<D_PDF, A_PDF>>, <<D_PDF>>}

\* C23: in the document a merge run has written, an item of the plan for
\* which the run emitted a skip message has none of its pages.
C23_SkippedItemAddsNoPage ==
    \A r \in DOMAIN mruns :
        LET m == mruns[r] IN
        (Ended(m) /\ LastEvent(m)[1] = "finished_ok") =>
            \A i \in 1..Len(m.items) :
                (HasSkipMessage(m, m.items[i]) /\ m.items[i] \in DOMAIN InitFS) =>
                    Range(fs[m.out_path].pages)
                        \cap Range(InitFS[m.items[i]].pages) = {}

====
